---------------------------- MODULE Spec2Model ----------------------------
(***************************************************************************)
(* Store credit register (src/app.py): a Streamlit form that composes a    *)
(* ledger entry from two lists of line items (B = deposits, K =            *)
(* withdrawals), validates it, writes it to the table `entries`, and lets  *)
(* the operator edit and delete stored rows.                               *)
(*                                                                         *)
(* One action of this module is one run of the script main() triggered by  *)
(* one widget event (a button press or one edited field), run to its end   *)
(* or to its st.stop()/st.rerun().                                         *)
(*                                                                         *)
(* Units.  The program computes in binary64.  The amounts of the model are *)
(* whole rupees, whose sums are exact in binary64 far beyond MAX_AMOUNT,   *)
(* so a total of the model is the total the program computes.  A charge is *)
(* amount * charge_pct / 100 rupees; every charge quantity of the model    *)
(* (line charge, b_charges, k_charges, grand_charges) is held in           *)
(* hundredths of a rupee, so that the division by 100 is exact:            *)
(* chargeOf(e) = amount * charge_pct hundredths.  charge_pct is in whole   *)
(* percent.  Amounts with a fractional part are outside the model.         *)
(*                                                                         *)
(* Text.  A text is a sequence of one-character strings, so that strip()   *)
(* is computed as Python computes it.                                      *)
(***************************************************************************)
EXTENDS Integers, Sequences, FiniteSets, TLC

VARIABLES
    customer_name,    \* st.session_state.customer_name  (text)
    customer_type,    \* st.session_state.customer_type
    payment_mode,     \* st.session_state.payment_mode
    remarks,          \* st.session_state.remarks        (text)
    b_entries,        \* st.session_state.b_entries : sequence of line items
    k_entries,        \* st.session_state.k_entries
    b_counter,        \* st.session_state.b_counter
    k_counter,        \* st.session_state.k_counter
    confirm_delete,   \* st.session_state.confirm_delete
    delete_id,        \* st.session_state.delete_id
    entries,          \* rows of table `entries` (a set of records, keyed by id)
    seq,              \* sqlite_sequence of `entries`: the largest id ever given
    start_date,       \* "From Date" of the All Entries tab
    end_date,         \* "To Date" of the All Entries tab
    eid,              \* the selectbox "Select Entry ID to Edit/Delete"
    report_date,      \* "Report Date" of the Summary tab
    report_type,      \* "Report Type" of the Summary tab: "Daily" or "Date Range"
    summary_start_date, \* "From Date" of the Summary tab (drawn for "Date Range")
    summary_end_date, \* "To Date" of the Summary tab (drawn for "Date Range")
    last,             \* the last run: [op, result], result as st.error/st.success told it
    ran,              \* what the last run carried out: validations, exports
    prior,            \* history: the collection as it was before the add of the last run
    b_given,          \* history: ids given to B lines since the session began
    k_given,          \* history: ids given to K lines since the session began
    b_fresh,          \* history: ids given to B lines since the last reset_form
    k_fresh           \* history: ids given to K lines since the last reset_form

formVars  == <<customer_name, customer_type, payment_mode, remarks>>
lineVars  == <<b_entries, k_entries, b_counter, k_counter>>
histVars  == <<b_given, k_given, b_fresh, k_fresh>>
delVars   == <<confirm_delete, delete_id>>
storeVars == <<entries, seq>>
navVars   == <<start_date, end_date, eid>>
reportVars == <<report_date, report_type, summary_start_date, summary_end_date>>
outVars   == <<last, ran, prior>>
vars == <<formVars, lineVars, histVars, delVars, storeVars, navVars, reportVars, outVars>>

---------------------------------------------------------------------------
(* Program constants.                                                      *)

MAX_CHARGE_PERCENTAGE == 10
MAX_AMOUNT == 1000000

(* Bounds of the model.                                                    *)

MaxLines   == 2    \* lines per collection (Add is not taken beyond it)
MaxCounter == 4    \* largest value a line-id counter is let to reach
MaxRows    == 2    \* rows ever inserted (the autoincrement id is capped)
MaxDate    == 2    \* calendar dates are 1..MaxDate
FormSaves  == 1    \* inserts taken by the specifications that explore the form

NoId == -1         \* a line item dict that has no "id" key
None == 0          \* Python None (delete_id, an empty selectbox); row ids are >= 1

Dates == 1..MaxDate

---------------------------------------------------------------------------
(* Text.                                                                   *)

SP == " "

IsSpace(c) == c = SP

RECURSIVE lstrip(_)
lstrip(s) == IF s # <<>> /\ IsSpace(Head(s)) THEN lstrip(Tail(s)) ELSE s

RECURSIVE rstrip(_)
rstrip(s) ==
    IF s # <<>> /\ IsSpace(s[Len(s)]) THEN rstrip(SubSeq(s, 1, Len(s) - 1)) ELSE s

(* str.strip(): leading and trailing whitespace removed.                   *)
strip(s) == rstrip(lstrip(s))

---------------------------------------------------------------------------
(* Line items.                                                             *)

Line(a, p, i) == [amount |-> a, charge_pct |-> p, id |-> i]

(* defaults["b_entries"] / defaults["k_entries"]: one item, no "id" key.   *)
defaultEntries == << Line(0, 0, NoId) >>

(* ch = e["amount"] * e["charge_pct"] / 100, in hundredths of a rupee.     *)
chargeOf(e) == e.amount * e.charge_pct

(* b_amt += e["amount"] over the collection.                               *)
RECURSIVE totalAmount(_)
totalAmount(es) == IF es = <<>> THEN 0 ELSE Head(es).amount + totalAmount(Tail(es))

RECURSIVE totalCharges(_)

(* The charge of a collection taken as its total amount at the average of  *)
(* its lines' percentages.                                                 *)
totalChargesByAverage(es) ==
    IF es = <<>> THEN 0
    ELSE (totalAmount(es)
            * totalAmount([i \in 1..Len(es) |-> [amount |-> es[i].charge_pct]]))
         \div Len(es)

(* b_chg += ch over the collection.                                        *)
totalCharges(es) == IF es = <<>> THEN 0 ELSE chargeOf(Head(es)) + totalCharges(Tail(es))

RECURSIVE assignIds(_, _)

(* The id loop without its `counter += 1`.                                 *)
assignIdsCounterKept(es, ctr) ==
    [entries |-> [i \in 1..Len(es) |->
                     IF es[i].id = NoId THEN [es[i] EXCEPT !.id = ctr] ELSE es[i]],
     counter |-> ctr,
     given   |-> IF \E i \in 1..Len(es) : es[i].id = NoId THEN {ctr} ELSE {}]

(* The loop that gives an id to every item that has none, in list order,   *)
(* taking it from the counter: [entries, counter, given].                  *)
assignIds(es, ctr) ==
    IF es = <<>> THEN [entries |-> <<>>, counter |-> ctr, given |-> {}]
    ELSE IF Head(es).id = NoId
         THEN LET r == assignIds(Tail(es), ctr + 1)
              IN  [entries |-> << [Head(es) EXCEPT !.id = ctr] >> \o r.entries,
                   counter |-> r.counter,
                   given   |-> {ctr} \cup r.given]
         ELSE LET r == assignIds(Tail(es), ctr)
              IN  [entries |-> << Head(es) >> \o r.entries,
                   counter |-> r.counter,
                   given   |-> r.given]

(* list.pop() without its index: the last item goes.                       *)
popLast(es, idx) == SubSeq(es, 1, Len(es) - 1)

(* list.pop(idx) on a 1-based sequence.                                    *)
pop(es, idx) == SubSeq(es, 1, idx - 1) \o SubSeq(es, idx + 1, Len(es))

(* removeLine without the size test.                                       *)
removeLineAlways(es, idx) == pop(es, idx)

(* The remove button of line idx: it exists only while the collection has  *)
(* more than one line; the line is popped after the loop.                  *)
removeLine(es, idx) == IF Len(es) > 1 THEN pop(es, idx) ELSE es

(* addLine keyed by list position instead of by the counter.               *)
addLineByIndex(es, ctr) == es \o << Line(0, 0, Len(es)) >>

(* addLine putting the new line first.                                     *)
addLineInFront(es, ctr) == << Line(0, 0, ctr) >> \o es

(* "Add Entry": a zero line with the counter's value as id is appended.    *)
addLine(es, ctr) == es \o << Line(0, 0, ctr) >>

(* reset_form(): the collection and the counter its assignments give.      *)
resetEntries == << Line(0, 0, 0) >>
resetCounter == 1

(* reset_form(): the keys of st.session_state it assigns, in the order of  *)
(* its statements.                                                         *)
resetOrder ==
    << "customer_name", "customer_type", "payment_mode", "remarks",
       "b_entries", "k_entries", "b_counter", "k_counter" >>

(* No widget holds a key that reset_form assigns.                          *)
noFormWidgets == {}

(* The keys of the form widgets that render_new_entry_tab has instantiated *)
(* when the "Save Entry" button is evaluated: st.radio(key=                *)
(* "customer_type"), st.radio(key="payment_mode"), st.text_input(key=      *)
(* "customer_name"), st.text_area(key="remarks").                          *)
formWidgets == { "customer_type", "payment_mode", "customer_name", "remarks" }

(* st.session_state.<key> = value: Streamlit refuses the assignment with a *)
(* StreamlitAPIException ("cannot be modified after the widget with key    *)
(* ... is instantiated") when a widget with that key has been instantiated *)
(* in the running script run.  refusedAt is the position of the first      *)
(* statement of reset_form that is refused, Len(resetOrder) + 1 if none.   *)
refusedAt(widgets) ==
    IF \E i \in 1..Len(resetOrder) : resetOrder[i] \in widgets
    THEN CHOOSE i \in 1..Len(resetOrder) :
             /\ resetOrder[i] \in widgets
             /\ \A j \in 1..(i - 1) : resetOrder[j] \notin widgets
    ELSE Len(resetOrder) + 1

(* reset_form() called with these widgets instantiated: the keys it has    *)
(* assigned when it returns or raises, and whether it raises.              *)
reset_form(widgets) ==
    [ done   |-> { resetOrder[i] : i \in 1..(refusedAt(widgets) - 1) },
      raised |-> refusedAt(widgets) <= Len(resetOrder) ]

(* st.number_input(min_value=0.0, max_value=...): a value outside the      *)
(* range cannot be entered.                                                *)
amountInput(a) == 0 <= a /\ a <= MAX_AMOUNT
chargePctInput(p) == 0 <= p /\ p <= MAX_CHARGE_PERCENTAGE

(* The script has run once: every line item has its id.                    *)
Rendered ==
    /\ \A i \in 1..Len(b_entries) : b_entries[i].id # NoId
    /\ \A i \in 1..Len(k_entries) : k_entries[i].id # NoId

---------------------------------------------------------------------------
(* Validation.                                                             *)

(* validate_amount refusing the bound itself.                              *)
validate_amount_below(amount) ==
    IF amount < 0 THEN FALSE
    ELSE IF amount >= MAX_AMOUNT THEN FALSE
    ELSE TRUE

(* validate_amount: False below 0 and above MAX_AMOUNT.                    *)
validate_amount(amount) ==
    IF amount < 0 THEN FALSE
    ELSE IF amount > MAX_AMOUNT THEN FALSE
    ELSE TRUE

(* validate_charge_percentage: defined by the program, called by no        *)
(* handler.                                                                *)
validate_charge_percentage(pct) ==
    IF pct < 0 THEN FALSE
    ELSE IF pct > MAX_CHARGE_PERCENTAGE THEN FALSE
    ELSE TRUE

(* The name check without strip().                                         *)
nameGivenUnstripped(name) == name # <<>>

(* `if not st.session_state.customer_name.strip()` / `if not en.strip()`.  *)
nameGiven(name) == strip(name) # <<>>

---------------------------------------------------------------------------
(* The table `entries`.                                                    *)

Row(i, d, t, ct, cn, pm, ba, bc, ka, kc, gc, rm) ==
    [id |-> i, entry_date |-> d, entry_time |-> t, customer_type |-> ct,
     customer_name |-> cn, payment_mode |-> pm, b_amount |-> ba,
     b_charges |-> bc, k_amount |-> ka, k_charges |-> kc,
     grand_charges |-> gc, remarks |-> rm]

(* total_charges = b_chg + k_chg of the New Entry tab.                     *)
total_charges(b_chg, k_chg) == b_chg + k_chg

(* The values bound to INSERT INTO entries (...) by "Save Entry".          *)
insertRow(i, d, t) ==
    Row(i, d, t, customer_type, strip(customer_name), payment_mode,
        totalAmount(b_entries), totalCharges(b_entries),
        totalAmount(k_entries), totalCharges(k_entries),
        total_charges(totalCharges(b_entries), totalCharges(k_entries)),
        strip(remarks))

(* updateRow leaving grand_charges as it was.                              *)
updateRowKeepingGrand(r, en, ct, pm, ba, bc, ka, kc, rm) ==
    [r EXCEPT !.customer_name = en, !.customer_type = ct, !.payment_mode = pm,
              !.b_amount = ba, !.b_charges = bc, !.k_amount = ka,
              !.k_charges = kc, !.remarks = rm]

(* The values bound to UPDATE entries SET ... WHERE id=? by "Update Entry";*)
(* id, entry_date and entry_time are not in the SET list.                  *)
updateRow(r, en, ct, pm, ba, bc, ka, kc, rm) ==
    [r EXCEPT !.customer_name = en, !.customer_type = ct, !.payment_mode = pm,
              !.b_amount = ba, !.b_charges = bc, !.k_amount = ka,
              !.k_charges = kc, !.grand_charges = bc + kc, !.remarks = rm]

(* UPDATE entries SET ... with no WHERE clause.                            *)
sqlUpdateAll(rows, i, en, ct, pm, ba, bc, ka, kc, rm) ==
    { updateRow(r, en, ct, pm, ba, bc, ka, kc, rm) : r \in rows }

(* UPDATE ... WHERE id=?                                                   *)
sqlUpdate(rows, i, en, ct, pm, ba, bc, ka, kc, rm) ==
    { IF r.id = i THEN updateRow(r, en, ct, pm, ba, bc, ka, kc, rm) ELSE r : r \in rows }

(* DELETE FROM entries with no WHERE clause.                               *)
sqlDeleteAll(rows, i) == {}

(* DELETE with the comparison id <= ?                                      *)
sqlDeleteUpTo(rows, i) == { r \in rows : r.id > i }

(* An INSERT that is made again after the store raised, and then passes.   *)
sqlInsertRetried(rows, r, storeOk) == rows \cup {r}

(* INSERT INTO entries ... and conn.commit(), once: the row is in the      *)
(* table when the store raises nothing; when it raises, the connection is  *)
(* closed without a commit and the table is as it was.                     *)
sqlInsert(rows, r, storeOk) == IF storeOk THEN rows \cup {r} ELSE rows

(* DELETE FROM entries WHERE id=?                                          *)
sqlDelete(rows, i) == { r \in rows : r.id # i }

(* cursor.rowcount after UPDATE / DELETE ... WHERE id=?: the number of     *)
(* rows the statement matched.  sqlite3 sets it; the program never reads   *)
(* it, and a statement that matches no row raises nothing.                 *)
rowcount(rows, i) == Cardinality({ r \in rows : r.id = i })

(* entry_date BETWEEN ? AND ? with the end date left out.                  *)
betweenExclusive(r, s, e) == s <= r.entry_date /\ r.entry_date < e

(* WHERE entry_date BETWEEN ? AND ?                                        *)
between(r, s, e) == s <= r.entry_date /\ r.entry_date <= e

(* ORDER BY entry_date DESC, id DESC                                       *)
before(r1, r2) ==
    \/ r1.entry_date > r2.entry_date
    \/ r1.entry_date = r2.entry_date /\ r1.id > r2.id

RECURSIVE ordered(_)
ordered(rows) ==
    IF rows = {} THEN <<>>
    ELSE LET first == CHOOSE r \in rows : \A q \in rows \ {r} : before(r, q)
         IN  << first >> \o ordered(rows \ {first})

(* df_all of the All Entries tab.                                          *)
listByRange(rows, s, e) == ordered({ r \in rows : between(r, s, e) })

(* df_all["id"].tolist(): the options of the selectbox.                    *)
optionIds(rows, s, e) ==
    LET l == listByRange(rows, s, e) IN [ i \in 1..Len(l) |-> l[i].id ]

(* The selectbox after a run: it keeps its choice while its options are    *)
(* the same list, and starts again at the first option (index 0) when the  *)
(* list has changed; with no row in range the script stops before it.      *)
selected(oldOpts, newOpts, cur) ==
    IF newOpts = <<>> THEN None
    ELSE IF newOpts = oldOpts THEN cur
    ELSE newOpts[1]


---------------------------------------------------------------------------
(* The queries of the Summary tab.                                         *)

(* date_filter and query_condition: "entry_date = ?" with the report date  *)
(* for "Daily", "entry_date BETWEEN ? AND ?" for "Date Range".             *)
date_filter(type, d, s, e) ==
    IF type = "Date Range"
    THEN [kind |-> "between", from |-> s, to |-> e]
    ELSE [kind |-> "equals", from |-> d, to |-> d]

(* WHERE {query_condition} with an exclusive upper bound.                  *)
matchesBelow(r, cond) ==
    IF cond.kind = "between"
    THEN cond.from <= r.entry_date /\ r.entry_date < cond.to
    ELSE r.entry_date = cond.from

(* WHERE {query_condition}                                                 *)
matches(r, cond) ==
    IF cond.kind = "between"
    THEN cond.from <= r.entry_date /\ r.entry_date <= cond.to
    ELSE r.entry_date = cond.from

(* SUM(col) over the rows: NULL, written << >>, over no row, else << the   *)
(* sum >>.                                                                 *)
RECURSIVE sqlSum(_, _)
sqlSum(rows, col) ==
    IF rows = {} THEN << >>
    ELSE LET r    == CHOOSE x \in rows : TRUE
             rest == sqlSum(rows \ {r}, col)
         IN  IF rest = << >> THEN << r[col] >> ELSE << r[col] + rest[1] >>

(* Python `v or 0` on a query result: 0 for None and for 0.                *)
orZero(v) == IF v = << >> THEN 0 ELSE IF v[1] = 0 THEN 0 ELSE v[1]

(* The four metrics of the Summary tab: the COUNT of the rows of the      *)
(* condition and the SUMs of b_amount, k_amount and grand_charges, as      *)
(* they are displayed.                                                     *)
summarize(rows, cond) ==
    LET m == { r \in rows : matches(r, cond) }
    IN  [count         |-> Cardinality(m),
         total_b       |-> orZero(sqlSum(m, "b_amount")),
         total_k       |-> orZero(sqlSum(m, "k_amount")),
         total_charges |-> orZero(sqlSum(m, "grand_charges"))]

(* GROUP BY payment_mode over the rows: one record for each payment mode   *)
(* that some row has, with COUNT and SUM(grand_charges) of its rows.       *)
groupByMode(rows) ==
    { [payment_mode |-> m,
       entries      |-> Cardinality({ r \in rows : r.payment_mode = m }),
       charges      |-> sqlSum({ r \in rows : r.payment_mode = m }, "grand_charges")[1]]
      : m \in { r.payment_mode : r \in rows } }

(* The breakdown query without its WHERE clause.                           *)
breakdownOfAllRows(rows, cond) == groupByMode(rows)

(* The payment-mode breakdown of the Summary tab: payment_mode, COUNT as   *)
(* entries and SUM(grand_charges) as charges of the rows of the condition, *)
(* grouped by payment_mode.                                                *)
breakdownByPaymentMode(rows, cond) ==
    groupByMode({ r \in rows : matches(r, cond) })

(* The columns of export_df.                                               *)
exportRow(r) ==
    [Date |-> r.entry_date, Time |-> r.entry_time, Customer |-> r.customer_name,
     Type |-> r.customer_type, Mode |-> r.payment_mode, B_Amount |-> r.b_amount,
     K_Amount |-> r.k_amount, Charges |-> r.grand_charges, Remarks |-> r.remarks]

(* ORDER BY entry_date DESC, entry_time DESC: r1 must come before r2.      *)
exportBefore(r1, r2) ==
    \/ r1.entry_date > r2.entry_date
    \/ r1.entry_date = r2.entry_date /\ r1.entry_time > r2.entry_time

(* The orders in which the export query may return the rows of the         *)
(* condition: every arrangement that ORDER BY entry_date DESC, entry_time  *)
(* DESC allows; rows equal in both columns come in an order SQL leaves     *)
(* open.                                                                   *)
exportOrders(rows, cond) ==
    LET m == { r \in rows : matches(r, cond) }
        n == Cardinality(m)
    IN  { q \in [1..n -> m] :
            /\ \A i, j \in 1..n : i # j => q[i] # q[j]
            /\ \A i, j \in 1..n : i < j => ~exportBefore(q[j], q[i]) }

(* export_df: the projected rows, in each order the query may return.      *)
exportRows(rows, cond) ==
    { [i \in 1..Len(q) |-> exportRow(q[i])] : q \in exportOrders(rows, cond) }

(* The export section in which a failed spreadsheet export ends the        *)
(* section.                                                                *)
exportSectionAborting(xlsOk, pdfOk) ==
    IF ~xlsOk THEN {"excel_error"}
    ELSE {"excel"} \cup (IF pdfOk THEN {"pdf"} ELSE {"pdf_error"})

(* The export section over a non-empty export_df: the spreadsheet in its   *)
(* own try (download button, or st.error on an exception), then the PDF    *)
(* (generate_pdf returns None after its own st.error; the download button  *)
(* is drawn for a buffer).  xlsOk / pdfOk: the exporter raises nothing.    *)
exportSection(xlsOk, pdfOk) ==
    (IF xlsOk THEN {"excel"} ELSE {"excel_error"})
        \cup (IF pdfOk THEN {"pdf"} ELSE {"pdf_error"})

---------------------------------------------------------------------------
(* The session after initialize_session_state(), over an empty table.      *)

(* What a run tells the operator: the operation, its result as st.error / *)
(* st.success put it, and arg: the position a remove request named, or the *)
(* rowcount of the UPDATE / DELETE of a run that reported success.         *)
Did(op, result) == [op |-> op, result |-> result, arg |-> 0]

Quiet == Did("none", "none")

Init ==
    /\ customer_name = <<>>
    /\ customer_type = "Office"
    /\ payment_mode = "Cash"
    /\ remarks = <<>>
    /\ b_entries = defaultEntries
    /\ k_entries = defaultEntries
    /\ b_counter = 1
    /\ k_counter = 1
    /\ confirm_delete = FALSE
    /\ delete_id = None
    /\ entries = {}
    /\ seq = 0
    /\ start_date = 1
    /\ end_date = MaxDate
    /\ eid = None
    /\ report_date = MaxDate
    /\ report_type = "Daily"
    /\ summary_start_date = 1
    /\ summary_end_date = MaxDate
    /\ last = Quiet
    /\ ran = {}
    /\ prior = <<>>
    /\ b_given = {}
    /\ k_given = {}
    /\ b_fresh = {}
    /\ k_fresh = {}

(* The first run of the script: the id loops of the New Entry tab give the *)
(* default items their ids.  In every later run the loops find nothing to  *)
(* do, since every item has an id.                                         *)
FirstRun ==
    /\ ~Rendered
    /\ LET b == assignIds(b_entries, b_counter)
           k == assignIds(k_entries, k_counter)
       IN  /\ b_entries' = b.entries
           /\ b_counter' = b.counter
           /\ k_entries' = k.entries
           /\ k_counter' = k.counter
           /\ b_given' = b_given \cup b.given
           /\ k_given' = k_given \cup k.given
           /\ b_fresh' = b_fresh \cup b.given
           /\ k_fresh' = k_fresh \cup k.given
    /\ last' = Quiet
    /\ ran' = {}
    /\ prior' = <<>>
    /\ UNCHANGED reportVars
    /\ UNCHANGED <<formVars, delVars, storeVars, navVars>>

---------------------------------------------------------------------------
(* New Entry tab: the fields of the form.                                  *)

SetCustomerName(n) ==
    /\ Rendered
    /\ n # customer_name
    /\ customer_name' = n
    /\ last' = Quiet
    /\ ran' = {}
    /\ prior' = <<>>
    /\ UNCHANGED reportVars
    /\ UNCHANGED <<customer_type, payment_mode, remarks,
                   lineVars, histVars, delVars, storeVars, navVars>>

SetCustomerType(t) ==
    /\ Rendered
    /\ t # customer_type
    /\ customer_type' = t
    /\ last' = Quiet
    /\ ran' = {}
    /\ prior' = <<>>
    /\ UNCHANGED reportVars
    /\ UNCHANGED <<customer_name, payment_mode, remarks,
                   lineVars, histVars, delVars, storeVars, navVars>>

SetPaymentMode(m) ==
    /\ Rendered
    /\ m # payment_mode
    /\ payment_mode' = m
    /\ last' = Quiet
    /\ ran' = {}
    /\ prior' = <<>>
    /\ UNCHANGED reportVars
    /\ UNCHANGED <<customer_name, customer_type, remarks,
                   lineVars, histVars, delVars, storeVars, navVars>>

SetRemarks(r) ==
    /\ Rendered
    /\ r # remarks
    /\ remarks' = r
    /\ last' = Quiet
    /\ ran' = {}
    /\ prior' = <<>>
    /\ UNCHANGED reportVars
    /\ UNCHANGED <<customer_name, customer_type, payment_mode,
                   lineVars, histVars, delVars, storeVars, navVars>>

---------------------------------------------------------------------------
(* New Entry tab: the B lines.                                             *)

(* e["amount"] = new_amount for the line at position i.                    *)
EditBAmount(i, a) ==
    /\ Rendered
    /\ i \in 1..Len(b_entries)
    /\ amountInput(a)
    /\ a # b_entries[i].amount
    /\ b_entries' = [b_entries EXCEPT ![i].amount = a]
    /\ last' = Quiet
    /\ ran' = {}
    /\ prior' = <<>>
    /\ UNCHANGED reportVars
    /\ UNCHANGED <<formVars, k_entries, b_counter, k_counter,
                   histVars, delVars, storeVars, navVars>>

(* e["charge_pct"] = new_charge for the line at position i.                *)
EditBChargePct(i, p) ==
    /\ Rendered
    /\ i \in 1..Len(b_entries)
    /\ chargePctInput(p)
    /\ p # b_entries[i].charge_pct
    /\ b_entries' = [b_entries EXCEPT ![i].charge_pct = p]
    /\ last' = Quiet
    /\ ran' = {}
    /\ prior' = <<>>
    /\ UNCHANGED reportVars
    /\ UNCHANGED <<formVars, k_entries, b_counter, k_counter,
                   histVars, delVars, storeVars, navVars>>

(* A remove request for the B line at position i.                          *)
RemoveB(i) ==
    /\ Rendered
    /\ i \in 1..Len(b_entries)
    /\ b_entries' = removeLine(b_entries, i)
    /\ last' = [op |-> "removeB", arg |-> i,
                result |-> IF Len(b_entries) = 1 THEN "ignored"
                           ELSE IF last.op = "addB" /\ i = Len(b_entries) THEN "undone"
                           ELSE "removed"]
    /\ ran' = {}
    /\ prior' = <<>>
    /\ UNCHANGED reportVars
    /\ UNCHANGED <<formVars, k_entries, b_counter, k_counter,
                   histVars, delVars, storeVars, navVars>>

(* "Add B Entry".                                                          *)
AddB ==
    /\ Rendered
    /\ Len(b_entries) < MaxLines
    /\ b_counter < MaxCounter
    /\ b_entries' = addLine(b_entries, b_counter)
    /\ b_counter' = b_counter + 1
    /\ b_given' = b_given \cup {b_counter}
    /\ b_fresh' = b_fresh \cup {b_counter}
    /\ last' = Did("addB", "added")
    /\ ran' = {}
    /\ prior' = b_entries
    /\ UNCHANGED reportVars
    /\ UNCHANGED <<formVars, k_entries, k_counter, k_given, k_fresh,
                   delVars, storeVars, navVars>>

(* New Entry tab: the K lines.                                             *)

EditKAmount(i, a) ==
    /\ Rendered
    /\ i \in 1..Len(k_entries)
    /\ amountInput(a)
    /\ a # k_entries[i].amount
    /\ k_entries' = [k_entries EXCEPT ![i].amount = a]
    /\ last' = Quiet
    /\ ran' = {}
    /\ prior' = <<>>
    /\ UNCHANGED reportVars
    /\ UNCHANGED <<formVars, b_entries, b_counter, k_counter,
                   histVars, delVars, storeVars, navVars>>

EditKChargePct(i, p) ==
    /\ Rendered
    /\ i \in 1..Len(k_entries)
    /\ chargePctInput(p)
    /\ p # k_entries[i].charge_pct
    /\ k_entries' = [k_entries EXCEPT ![i].charge_pct = p]
    /\ last' = Quiet
    /\ ran' = {}
    /\ prior' = <<>>
    /\ UNCHANGED reportVars
    /\ UNCHANGED <<formVars, b_entries, b_counter, k_counter,
                   histVars, delVars, storeVars, navVars>>

RemoveK(i) ==
    /\ Rendered
    /\ i \in 1..Len(k_entries)
    /\ k_entries' = removeLine(k_entries, i)
    /\ last' = [op |-> "removeK", arg |-> i,
                result |-> IF Len(k_entries) = 1 THEN "ignored"
                           ELSE IF last.op = "addK" /\ i = Len(k_entries) THEN "undone"
                           ELSE "removed"]
    /\ ran' = {}
    /\ prior' = <<>>
    /\ UNCHANGED reportVars
    /\ UNCHANGED <<formVars, b_entries, b_counter, k_counter,
                   histVars, delVars, storeVars, navVars>>

AddK ==
    /\ Rendered
    /\ Len(k_entries) < MaxLines
    /\ k_counter < MaxCounter
    /\ k_entries' = addLine(k_entries, k_counter)
    /\ k_counter' = k_counter + 1
    /\ k_given' = k_given \cup {k_counter}
    /\ k_fresh' = k_fresh \cup {k_counter}
    /\ last' = Did("addK", "added")
    /\ ran' = {}
    /\ prior' = k_entries
    /\ UNCHANGED reportVars
    /\ UNCHANGED <<formVars, b_entries, b_counter, b_given, b_fresh,
                   delVars, storeVars, navVars>>

---------------------------------------------------------------------------
(* "Save Entry": the name check, validate_amount on both totals, the       *)
(* INSERT and its commit, st.success, and then reset_form().  reset_form   *)
(* is called after the form widgets of this run have been instantiated, so *)
(* its first assignment (customer_name) raises; `except Exception` reports *)
(* "Unexpected error" and calls st.stop().  The row is committed by then.  *)
(* d and t are the date and time of the run's clock; storeOk is false when *)
(* sqlite raises.  eid is the value the selectbox takes when the All       *)
(* Entries tab is drawn next, over the table as it then is.                *)

Save(d, t, storeOk) ==
    LET b_amt == totalAmount(b_entries)
        k_amt == totalAmount(k_entries)
        valid == nameGiven(customer_name) /\ validate_amount(b_amt)
                                          /\ validate_amount(k_amt)
        rows  == sqlInsert(entries, insertRow(seq + 1, d, t), storeOk)
        reset == reset_form(formWidgets)
    IN
    /\ Rendered
    /\ (valid /\ storeOk) => seq < MaxRows
    /\ IF ~nameGiven(customer_name)
       THEN /\ last' = Did("save", "MissingField")
            /\ ran' = {"required"}
            /\ UNCHANGED <<formVars, lineVars, histVars, delVars, storeVars, navVars>>
       ELSE IF ~validate_amount(b_amt)
       THEN /\ last' = Did("save", "OutOfRange")
            /\ ran' = {"required", "amount_b"}
            /\ UNCHANGED <<formVars, lineVars, histVars, delVars, storeVars, navVars>>
       ELSE IF ~validate_amount(k_amt)
       THEN /\ last' = Did("save", "OutOfRange")
            /\ ran' = {"required", "amount_b", "amount_k"}
            /\ UNCHANGED <<formVars, lineVars, histVars, delVars, storeVars, navVars>>
       ELSE IF ~storeOk
       THEN /\ entries' = rows
            /\ last' = Did("save", "StoreError")
            /\ ran' = {"required", "amount_b", "amount_k"}
            /\ UNCHANGED <<formVars, lineVars, histVars, delVars, seq, navVars>>
       ELSE /\ entries' = rows
            /\ seq' = seq + 1
            /\ customer_name' = IF "customer_name" \in reset.done THEN <<>> ELSE customer_name
            /\ customer_type' = IF "customer_type" \in reset.done THEN "Office" ELSE customer_type
            /\ payment_mode' = IF "payment_mode" \in reset.done THEN "Cash" ELSE payment_mode
            /\ remarks' = IF "remarks" \in reset.done THEN <<>> ELSE remarks
            /\ b_entries' = IF "b_entries" \in reset.done THEN resetEntries ELSE b_entries
            /\ k_entries' = IF "k_entries" \in reset.done THEN resetEntries ELSE k_entries
            /\ b_counter' = IF "b_counter" \in reset.done THEN resetCounter ELSE b_counter
            /\ k_counter' = IF "k_counter" \in reset.done THEN resetCounter ELSE k_counter
            /\ b_given' = IF "b_entries" \in reset.done
                          THEN b_given \cup {resetEntries[1].id} ELSE b_given
            /\ k_given' = IF "k_entries" \in reset.done
                          THEN k_given \cup {resetEntries[1].id} ELSE k_given
            /\ b_fresh' = IF "b_entries" \in reset.done THEN {resetEntries[1].id} ELSE b_fresh
            /\ k_fresh' = IF "k_entries" \in reset.done THEN {resetEntries[1].id} ELSE k_fresh
            /\ eid' = selected(optionIds(entries, start_date, end_date),
                               optionIds(rows, start_date, end_date), eid)
            /\ last' = Did("save", IF reset.raised THEN "SavedResetFailed" ELSE "Saved")
            /\ ran' = {"required", "amount_b", "amount_k"}
            /\ UNCHANGED <<delVars, start_date, end_date>>
    /\ prior' = <<>>
    /\ UNCHANGED reportVars

---------------------------------------------------------------------------
(* All Entries tab.                                                        *)

ChangeStartDate(s) ==
    /\ Rendered
    /\ s # start_date
    /\ start_date' = s
    /\ eid' = selected(optionIds(entries, start_date, end_date),
                       optionIds(entries, s, end_date), eid)
    /\ last' = Quiet
    /\ ran' = {}
    /\ prior' = <<>>
    /\ UNCHANGED reportVars
    /\ UNCHANGED <<formVars, lineVars, histVars, delVars, storeVars, end_date>>

ChangeEndDate(e) ==
    /\ Rendered
    /\ e # end_date
    /\ end_date' = e
    /\ eid' = selected(optionIds(entries, start_date, end_date),
                       optionIds(entries, start_date, e), eid)
    /\ last' = Quiet
    /\ ran' = {}
    /\ prior' = <<>>
    /\ UNCHANGED reportVars
    /\ UNCHANGED <<formVars, lineVars, histVars, delVars, storeVars, start_date>>

(* Another option of the selectbox is chosen.                              *)
SelectEntry(i) ==
    /\ Rendered
    /\ \E j \in 1..Len(optionIds(entries, start_date, end_date)) :
           optionIds(entries, start_date, end_date)[j] = i
    /\ i # eid
    /\ eid' = i
    /\ last' = Quiet
    /\ ran' = {}
    /\ prior' = <<>>
    /\ UNCHANGED reportVars
    /\ UNCHANGED <<formVars, lineVars, histVars, delVars, storeVars,
                   start_date, end_date>>

(* "Update Entry" with the edit widgets holding en, ct, pm, ba, bc, ka,    *)
(* kc, rm: the name check, then the UPDATE of the row eid.                 *)
Update(en, ct, pm, ba, bc, ka, kc, rm, storeOk) ==
    LET rows == sqlUpdate(entries, eid, en, ct, pm, ba, bc, ka, kc, rm) IN
    /\ Rendered
    /\ eid # None
    /\ amountInput(ba) /\ amountInput(ka)
    /\ bc >= 0 /\ kc >= 0
    /\ IF ~nameGiven(en)
       THEN /\ last' = Did("update", "MissingField")
            /\ UNCHANGED <<storeVars, eid>>
       ELSE IF ~storeOk
       THEN /\ last' = Did("update", "StoreError")
            /\ UNCHANGED <<storeVars, eid>>
       ELSE /\ entries' = rows
            /\ seq' = seq
            /\ eid' = selected(optionIds(entries, start_date, end_date),
                               optionIds(rows, start_date, end_date), eid)
            /\ last' = [op |-> "update", result |-> "Updated",
                        arg |-> rowcount(entries, eid)]
    /\ ran' = {"required"}
    /\ prior' = <<>>
    /\ UNCHANGED reportVars
    /\ UNCHANGED <<formVars, lineVars, histVars, delVars, start_date, end_date>>

(* "Delete Entry": shown while no confirmation is pending.                 *)
RequestDelete ==
    /\ Rendered
    /\ eid # None
    /\ ~confirm_delete
    /\ confirm_delete' = TRUE
    /\ delete_id' = eid
    /\ last' = Did("requestDelete", "pending")
    /\ ran' = {}
    /\ prior' = <<>>
    /\ UNCHANGED reportVars
    /\ UNCHANGED <<formVars, lineVars, histVars, storeVars, navVars>>

(* "Yes, Delete": shown while a confirmation is pending for the selected   *)
(* entry.                                                                  *)
ConfirmDelete(storeOk) ==
    LET rows == sqlDelete(entries, eid) IN
    /\ Rendered
    /\ eid # None
    /\ confirm_delete
    /\ delete_id = eid
    /\ IF storeOk
       THEN /\ entries' = rows
            /\ seq' = seq
            /\ confirm_delete' = FALSE
            /\ delete_id' = None
            /\ eid' = selected(optionIds(entries, start_date, end_date),
                               optionIds(rows, start_date, end_date), eid)
            /\ last' = [op |-> "confirmDelete", result |-> "Deleted",
                        arg |-> rowcount(entries, eid)]
       ELSE /\ last' = Did("confirmDelete", "StoreError")
            /\ UNCHANGED <<storeVars, delVars, eid>>
    /\ ran' = {}
    /\ prior' = <<>>
    /\ UNCHANGED reportVars
    /\ UNCHANGED <<formVars, lineVars, histVars, start_date, end_date>>

(* "Cancel": shown beside "Yes, Delete".                                   *)
CancelDelete ==
    /\ Rendered
    /\ eid # None
    /\ confirm_delete
    /\ delete_id = eid
    /\ confirm_delete' = FALSE
    /\ delete_id' = None
    /\ last' = Did("cancelDelete", "cancelled")
    /\ ran' = {}
    /\ prior' = <<>>
    /\ UNCHANGED reportVars
    /\ UNCHANGED <<formVars, lineVars, histVars, storeVars, navVars>>

---------------------------------------------------------------------------
(* Two sessions over one store.db.  Every statement of a run is its own    *)
(* transaction on its own connection (lines 475, 537, 568), so a DELETE    *)
(* that another session of the program commits can fall between the SELECT *)
(* of a run, which lists the row, and the UPDATE or DELETE of that run.    *)

(* "Update Entry" on a row that another session deletes after this run has *)
(* listed it: the UPDATE matches no row, raises nothing, and the run goes  *)
(* on to st.success and st.rerun().                                        *)
UpdateAfterDelete(en, ct, pm, ba, bc, ka, kc, rm) ==
    LET left == sqlDelete(entries, eid)
        rows == sqlUpdate(left, eid, en, ct, pm, ba, bc, ka, kc, rm)
    IN
    /\ Rendered
    /\ eid # None
    /\ amountInput(ba) /\ amountInput(ka)
    /\ bc >= 0 /\ kc >= 0
    /\ nameGiven(en)
    /\ entries' = rows
    /\ seq' = seq
    /\ eid' = selected(optionIds(entries, start_date, end_date),
                       optionIds(rows, start_date, end_date), eid)
    /\ last' = [op |-> "update", result |-> "Updated", arg |-> rowcount(left, eid)]
    /\ ran' = {"required"}
    /\ prior' = <<>>
    /\ UNCHANGED reportVars
    /\ UNCHANGED <<formVars, lineVars, histVars, delVars, start_date, end_date>>

(* "Yes, Delete" on a row that another session deletes after this run has  *)
(* listed it: the DELETE matches no row, raises nothing, and the run goes  *)
(* on to clear the confirmation, st.success and st.rerun().                *)
ConfirmDeleteAfterDelete ==
    LET left == sqlDelete(entries, eid)
        rows == sqlDelete(left, eid)
    IN
    /\ Rendered
    /\ eid # None
    /\ confirm_delete
    /\ delete_id = eid
    /\ entries' = rows
    /\ seq' = seq
    /\ confirm_delete' = FALSE
    /\ delete_id' = None
    /\ eid' = selected(optionIds(entries, start_date, end_date),
                       optionIds(rows, start_date, end_date), eid)
    /\ last' = [op |-> "confirmDelete", result |-> "Deleted", arg |-> rowcount(left, eid)]
    /\ ran' = {}
    /\ prior' = <<>>
    /\ UNCHANGED reportVars
    /\ UNCHANGED <<formVars, lineVars, histVars, start_date, end_date>>

---------------------------------------------------------------------------
(* Summary tab.  A run draws the tabs in the order New Entry, Today, All   *)
(* Entries, Summary; the All Entries tab calls st.stop() when its date     *)
(* range holds no row, and the Summary tab is then not drawn in that run.  *)

(* What a run of the Summary tab does under the condition cond.            *)
summaryRun(cond, xlsOk, pdfOk) ==
    IF listByRange(entries, start_date, end_date) = << >>
    THEN {}
    ELSE IF exportRows(entries, cond) = { << >> }
    THEN {"summary", "no_data"}
    ELSE {"summary"} \cup exportSection(xlsOk, pdfOk)

ChangeReportDate(d, xlsOk, pdfOk) ==
    /\ Rendered
    /\ d # report_date
    /\ report_date' = d
    /\ last' = Did("report", "drawn")
    /\ ran' = summaryRun(date_filter(report_type, d, summary_start_date, summary_end_date),
                         xlsOk, pdfOk)
    /\ prior' = <<>>
    /\ UNCHANGED <<formVars, lineVars, histVars, delVars, storeVars, navVars,
                   report_type, summary_start_date, summary_end_date>>

(* The two date inputs of the range are drawn only for "Date Range"; they  *)
(* start from their defaults when they are drawn again.                    *)
ChangeReportType(t, xlsOk, pdfOk) ==
    /\ Rendered
    /\ t # report_type
    /\ report_type' = t
    /\ summary_start_date' = 1
    /\ summary_end_date' = MaxDate
    /\ last' = Did("report", "drawn")
    /\ ran' = summaryRun(date_filter(t, report_date, 1, MaxDate), xlsOk, pdfOk)
    /\ prior' = <<>>
    /\ UNCHANGED <<formVars, lineVars, histVars, delVars, storeVars, navVars, report_date>>

ChangeSummaryStart(s, xlsOk, pdfOk) ==
    /\ Rendered
    /\ report_type = "Date Range"
    /\ s # summary_start_date
    /\ summary_start_date' = s
    /\ last' = Did("report", "drawn")
    /\ ran' = summaryRun(date_filter(report_type, report_date, s, summary_end_date),
                         xlsOk, pdfOk)
    /\ prior' = <<>>
    /\ UNCHANGED <<formVars, lineVars, histVars, delVars, storeVars, navVars,
                   report_date, report_type, summary_end_date>>

ChangeSummaryEnd(e, xlsOk, pdfOk) ==
    /\ Rendered
    /\ report_type = "Date Range"
    /\ e # summary_end_date
    /\ summary_end_date' = e
    /\ last' = Did("report", "drawn")
    /\ ran' = summaryRun(date_filter(report_type, report_date, summary_start_date, e),
                         xlsOk, pdfOk)
    /\ prior' = <<>>
    /\ UNCHANGED <<formVars, lineVars, histVars, delVars, storeVars, navVars,
                   report_date, report_type, summary_start_date>>

---------------------------------------------------------------------------
(* What the operator may enter.                                            *)

Names       == { <<>>, <<SP>>, <<"a">>, <<SP, "a", SP>> }
Types       == { "Office", "Others" }
Modes       == { "Cash", "UPI" }
RemarkTexts == { <<>>, <<"r", SP>> }
Times       == { 1, 2 }
Amounts     == { 0, 1, 500, MAX_AMOUNT, MAX_AMOUNT + 1 }
ChargePcts  == { 0, 2, MAX_CHARGE_PERCENTAGE, MAX_CHARGE_PERCENTAGE + 1 }
Charges     == { 0, 700 }
ReportTypes == { "Daily", "Date Range" }

(* Every handler, over every input above.                                  *)
Next ==
    \/ FirstRun
    \/ \E n \in Names : SetCustomerName(n)
    \/ \E t \in Types : SetCustomerType(t)
    \/ \E m \in Modes : SetPaymentMode(m)
    \/ \E r \in RemarkTexts : SetRemarks(r)
    \/ \E i \in 1..MaxLines, a \in Amounts : EditBAmount(i, a)
    \/ \E i \in 1..MaxLines, p \in ChargePcts : EditBChargePct(i, p)
    \/ \E i \in 1..MaxLines : RemoveB(i)
    \/ AddB
    \/ \E i \in 1..MaxLines, a \in Amounts : EditKAmount(i, a)
    \/ \E i \in 1..MaxLines, p \in ChargePcts : EditKChargePct(i, p)
    \/ \E i \in 1..MaxLines : RemoveK(i)
    \/ AddK
    \/ \E d \in Dates, t \in Times, ok \in BOOLEAN : Save(d, t, ok)
    \/ \E s \in Dates : ChangeStartDate(s)
    \/ \E e \in Dates : ChangeEndDate(e)
    \/ \E i \in 1..MaxRows : SelectEntry(i)
    \/ \E en \in Names, ct \in Types, pm \in Modes, ba \in Amounts, bc \in Charges,
          ka \in Amounts, kc \in Charges, rm \in RemarkTexts, ok \in BOOLEAN :
           Update(en, ct, pm, ba, bc, ka, kc, rm, ok)
    \/ RequestDelete
    \/ \E ok \in BOOLEAN : ConfirmDelete(ok)
    \/ CancelDelete
    \/ \E en \in Names, ct \in Types, pm \in Modes, ba \in Amounts, bc \in Charges,
          ka \in Amounts, kc \in Charges, rm \in RemarkTexts :
           UpdateAfterDelete(en, ct, pm, ba, bc, ka, kc, rm)
    \/ ConfirmDeleteAfterDelete
    \/ \E d \in Dates, x \in BOOLEAN, p \in BOOLEAN : ChangeReportDate(d, x, p)
    \/ \E t \in ReportTypes, x \in BOOLEAN, p \in BOOLEAN : ChangeReportType(t, x, p)
    \/ \E d \in Dates, x \in BOOLEAN, p \in BOOLEAN : ChangeSummaryStart(d, x, p)
    \/ \E d \in Dates, x \in BOOLEAN, p \in BOOLEAN : ChangeSummaryEnd(d, x, p)

Spec == Init /\ [][Next]_vars

(* The two line-item collections: adding and removing lines, editing the   *)
(* deposit amounts, and saving.                                            *)
NextLines ==
    \/ FirstRun
    \/ \E n \in { <<>>, <<"a">> } : SetCustomerName(n)
    \/ \E i \in 1..MaxLines, a \in { 0, 500 } : EditBAmount(i, a)
    \/ \E i \in 1..MaxLines : RemoveB(i)
    \/ AddB
    \/ \E i \in 1..MaxLines : RemoveK(i)
    \/ AddK
    \/ seq < FormSaves /\ \E ok \in BOOLEAN : Save(1, 1, ok)

SpecLines == Init /\ [][NextLines]_vars

(* The deposit collection with amounts and charge percentages, the         *)
(* customer name and the save.                                             *)
NextDeposit ==
    \/ FirstRun
    \/ \E n \in { <<>>, <<SP>>, <<"a">> } : SetCustomerName(n)
    \/ \E i \in 1..MaxLines, a \in { 0, 500 } : EditBAmount(i, a)
    \/ \E i \in 1..MaxLines, p \in { 0, 2 } : EditBChargePct(i, p)
    \/ \E i \in 1..MaxLines : RemoveB(i)
    \/ AddB
    \/ seq < FormSaves /\ \E ok \in BOOLEAN : Save(1, 1, ok)

SpecDeposit == Init /\ [][NextDeposit]_vars

(* The totals at the bound MAX_AMOUNT: deposit lines of 0, 1 and           *)
(* MAX_AMOUNT rupees, withdrawal lines of 0 and MAX_AMOUNT rupees, and the *)
(* save; a session is followed up to its FormSaves-th insert.              *)
NextSave ==
    \/ seq < FormSaves /\ FirstRun
    \/ seq < FormSaves /\ \E n \in { <<>>, <<"a">> } : SetCustomerName(n)
    \/ seq < FormSaves /\ \E i \in 1..MaxLines,
                             a \in { 0, 1, MAX_AMOUNT, MAX_AMOUNT + 1 } : EditBAmount(i, a)
    \/ seq < FormSaves /\ AddB
    \/ seq < FormSaves /\ \E i \in 1..MaxLines, a \in { 0, MAX_AMOUNT } : EditKAmount(i, a)
    \/ seq < FormSaves /\ AddK
    \/ seq < FormSaves /\ \E ok \in BOOLEAN : Save(1, 1, ok)

SpecSave == Init /\ [][NextSave]_vars

(* The table under saves, updates and deletes: one deposit line, names     *)
(* with and without surrounding blanks, and the edit widgets of the All    *)
(* Entries tab.  The form is edited until the                              *)
(* MaxRows-th insert; after it the session goes on in the All Entries tab. *)
NextWrite ==
    \/ FirstRun
    \/ seq < MaxRows /\ \E n \in { <<"a">>, <<SP, "a", SP>> } : SetCustomerName(n)
    \/ seq < MaxRows /\ EditBAmount(1, 500)
    \/ seq < MaxRows /\ EditBChargePct(1, 2)
    \/ \E ok \in BOOLEAN : Save(1, 1, ok)
    \/ \E i \in 1..MaxRows : SelectEntry(i)
    \/ \E en \in { <<>>, <<"a">>, <<SP, "a", SP>> }, ok \in BOOLEAN :
           Update(en, "Office", "Cash", 500, 700, 300, 300, <<>>, ok)
    \/ RequestDelete
    \/ \E ok \in BOOLEAN : ConfirmDelete(ok)
    \/ CancelDelete

SpecWrite == Init /\ [][NextWrite]_vars

(* The delete confirmation and the navigation of the All Entries tab, over *)
(* rows saved on several dates.                                            *)
NextDelete ==
    \/ FirstRun
    \/ SetCustomerName(<<"a">>)
    \/ \E d \in Dates, ok \in BOOLEAN : Save(d, 1, ok)
    \/ \E s \in Dates : ChangeStartDate(s)
    \/ \E e \in Dates : ChangeEndDate(e)
    \/ \E i \in 1..MaxRows : SelectEntry(i)
    \/ RequestDelete
    \/ \E ok \in BOOLEAN : ConfirmDelete(ok)
    \/ CancelDelete

SpecDelete == Init /\ [][NextDelete]_vars

---------------------------------------------------------------------------
(* Properties of the line-item collections (SpecLines, SpecDeposit).       *)

lastId(es) == es[Len(es)].id

(* C1: the deposit and the withdrawal collection each hold at least one    *)
(* line in every reachable state, and a remove request on a collection of  *)
(* one line leaves the collection as it was.                               *)
C1_AtLeastOneLine ==
    /\ Len(b_entries) >= 1 /\ Len(k_entries) >= 1
    /\ [][ /\ Len(b_entries') >= 1
           /\ Len(k_entries') >= 1
           /\ (last'.op = "removeB" /\ Len(b_entries) = 1) => b_entries' = b_entries
           /\ (last'.op = "removeK" /\ Len(k_entries) = 1) => k_entries' = k_entries
         ]_vars

(* After a save, a remove request met a collection of one edited line and *)
(* left it.                                                                *)
C1_Witness ==
    /\ last.op = "removeB" /\ last.result = "ignored"
    /\ Len(b_entries) = 1 /\ b_entries[1].amount = 500
    /\ seq = 1

---------------------------------------------------------------------------
(* Properties of "Save Entry" (SpecDeposit, SpecSave).                     *)

(* A text that is empty once trimmed: it holds nothing but whitespace.     *)
Blank(text) == \A j \in 1..Len(text) : text[j] = SP

(* C7: a save with a customer name that is empty after trimming is         *)
(* rejected with MissingField, writes nothing to the table and does not    *)
(* reset the form: the line collections, their counters and the form       *)
(* fields stay as they are.                                                *)
C7_BlankNameRejected ==
    [][ (last'.op = "save" /\ Blank(customer_name))
            => /\ last'.result = "MissingField"
               /\ entries' = entries /\ seq' = seq
               /\ b_entries' = b_entries /\ k_entries' = k_entries
               /\ b_counter' = b_counter /\ k_counter' = k_counter
               /\ customer_name' = customer_name
      ]_vars

(* A save was rejected for a name of one space, with two deposit lines in  *)
(* progress that are still there.                                          *)
C7_Witness ==
    /\ last = Did("save", "MissingField")
    /\ customer_name = <<SP>>
    /\ Len(b_entries) = 2
    /\ b_entries[2].amount = 500
    /\ entries = {}

(* C8: with a customer name that is not blank, a save is rejected with     *)
(* OutOfRange and writes nothing when the deposit total or the withdrawal  *)
(* total is above MAX_AMOUNT; with both totals in 0..MAX_AMOUNT it is not  *)
(* rejected: the row with these totals is inserted, unless sqlite raises,  *)
(* and then the table is unchanged.                                        *)
C8_TotalsAgainstMaxAmount ==
    [][ (last'.op = "save" /\ ~Blank(customer_name))
            => LET bTotal == totalAmount(b_entries)
                   kTotal == totalAmount(k_entries)
               IN  IF bTotal > 1000000 \/ kTotal > 1000000
                   THEN /\ last'.result = "OutOfRange"
                        /\ entries' = entries /\ seq' = seq
                        /\ b_entries' = b_entries /\ k_entries' = k_entries
                   ELSE /\ last'.result \in {"Saved", "SavedResetFailed", "StoreError"}
                        /\ last'.result = "StoreError" => entries' = entries
                        /\ last'.result \in {"Saved", "SavedResetFailed"}
                              => \E r \in entries' \ entries :
                                    /\ entries' = entries \cup {r}
                                    /\ r.b_amount = bTotal
                                    /\ r.k_amount = kTotal
      ]_vars

(* Two deposit lines, each within the bound, with a total of 1,000,001     *)
(* were rejected.                                                          *)
C8_Witness ==
    /\ last = Did("save", "OutOfRange")
    /\ ~Blank(customer_name)
    /\ Len(b_entries) = 2
    /\ \A i \in 1..2 : b_entries[i].amount <= 1000000
    /\ totalAmount(b_entries) = 1000001
    /\ totalAmount(k_entries) <= 1000000

(* A save with a deposit total and a withdrawal total of exactly           *)
(* 1,000,000 was accepted.                                                 *)
C8_SavedAtTheBound ==
    /\ last.op = "save" /\ last.result \in {"Saved", "SavedResetFailed"}
    /\ \E r \in entries : r.b_amount = 1000000 /\ r.k_amount = 1000000

(* A save was rejected for the withdrawal total alone.                     *)
C8_WithdrawalRejected ==
    /\ last = Did("save", "OutOfRange")
    /\ totalAmount(b_entries) <= 1000000
    /\ totalAmount(k_entries) = 2000000

---------------------------------------------------------------------------
(* Properties of the table (SpecWrite).                                    *)

(* C2: every row of the table has grand_charges = b_charges + k_charges,   *)
(* in every reachable state.                                               *)
C2_GrandCharges ==
    \A r \in entries : r.grand_charges = r.b_charges + r.k_charges

(* A row saved with a deposit charge has been updated to other charges,    *)
(* beside a row that still is as it was saved.                             *)
C2_Witness ==
    /\ last.op = "update" /\ last.result = "Updated"
    /\ \E r \in entries : r.b_charges = 700 /\ r.k_charges = 300
    /\ \E r \in entries : r.b_charges = 1000 /\ r.k_charges = 0

(* The validations the specification asks for before a write.              *)
AllValidations == {"required", "amount_b", "amount_k", "charge_pct"}

(* C9: every write of a save or an update comes after the name check,      *)
(* validate_amount on both amounts and validate_charge_percentage have run *)
(* in that operation, and an update runs the validations a save runs.      *)
C9_ValidatedBeforeWrite ==
    [][ (last'.op \in {"save", "update"} /\ entries' # entries)
            => AllValidations \subseteq ran'
      ]_vars

(* What holds instead: a save writes after the name check and              *)
(* validate_amount on both totals, an update after the name check alone.   *)
C9_WhatRuns ==
    [][ /\ (last'.op = "save" /\ entries' # entries)
              => ran' = {"required", "amount_b", "amount_k"}
        /\ (last'.op = "update" /\ entries' # entries)
              => ran' = {"required"}
      ]_vars

Trimmed(text) == text # <<>> /\ text[1] # SP /\ text[Len(text)] # SP

(* C10: every row of the table has a customer_name that is not empty and   *)
(* has no leading or trailing whitespace, in every reachable state.        *)
C10_NameTrimmed ==
    \A r \in entries : Trimmed(r.customer_name)

(* What holds instead: no stored name is blank, and a row keeps a trimmed  *)
(* name until an update writes the name as typed.                          *)
C10_NameNotBlank ==
    \A r \in entries : ~Blank(r.customer_name)

---------------------------------------------------------------------------
(* Properties of the delete confirmation (SpecDelete).                     *)

Idle == ~confirm_delete
PendingConfirm(i) == confirm_delete /\ delete_id = i

(* C3: from Idle a delete request for the selected entry leads to          *)
(* PendingConfirm of that entry and leaves the table alone; from           *)
(* PendingConfirm(id), cancel leads to Idle and leaves the table alone,    *)
(* and confirm removes the row id and no other row and leads to Idle; a    *)
(* confirm on which sqlite raises removes nothing and stays pending.       *)
C3_DeleteFlow ==
    [][ /\ last'.op = "requestDelete"
              => /\ Idle /\ eid # None
                 /\ PendingConfirm(eid)'
                 /\ entries' = entries
        /\ last'.op = "cancelDelete"
              => /\ ~Idle
                 /\ Idle' /\ delete_id' = None
                 /\ entries' = entries
        /\ (last'.op = "confirmDelete" /\ last'.result = "Deleted")
              => /\ PendingConfirm(delete_id) /\ delete_id # None
                 /\ \E r \in entries : r.id = delete_id /\ entries' = entries \ {r}
                 /\ Cardinality(entries') = Cardinality(entries) - 1
                 /\ Idle' /\ delete_id' = None
        /\ (last'.op = "confirmDelete" /\ last'.result = "StoreError")
              => /\ entries' = entries
                 /\ UNCHANGED <<confirm_delete, delete_id>>
      ]_vars

(* The first of two rows was deleted after its confirmation; the second is *)
(* still there and no confirmation is pending.                             *)
C3_Witness ==
    /\ last.op = "confirmDelete" /\ last.result = "Deleted"
    /\ Idle /\ delete_id = None
    /\ seq = 2
    /\ \E r \in entries : r.id = 2
    /\ Cardinality(entries) = 1

(* C4: when a confirmation is pending and the operator navigates to        *)
(* another entry (another option of the selectbox, or a date range whose   *)
(* list starts with another entry), the flow is back in Idle.              *)
C4_NavigationResets ==
    [][ (~Idle /\ last'.op = "none" /\ eid' # eid /\ eid' # None)
            => Idle' /\ delete_id' = None
      ]_vars

(* What holds instead: navigation leaves confirm_delete and delete_id as   *)
(* they are.                                                               *)
C4_NavigationKeepsPending ==
    [][ (last'.op = "none" /\ eid' # eid) => UNCHANGED <<confirm_delete, delete_id>> ]_vars

---------------------------------------------------------------------------
(* Two sessions over one store (SpecShared): updates and deletes of rows   *)
(* that may be gone when the statement runs.                               *)

NextShared ==
    \/ FirstRun
    \/ seq < MaxRows /\ SetCustomerName(<<"a">>)
    \/ seq < MaxRows /\ EditBAmount(1, 500)
    \/ \E ok \in BOOLEAN : Save(1, 1, ok)
    \/ \E i \in 1..MaxRows : SelectEntry(i)
    \/ \E en \in { <<>>, <<"b">> }, ok \in BOOLEAN :
           Update(en, "Others", "UPI", 300, 700, 0, 0, <<>>, ok)
    \/ UpdateAfterDelete(<<"b">>, "Others", "UPI", 300, 700, 0, 0, <<>>)
    \/ RequestDelete
    \/ \E ok \in BOOLEAN : ConfirmDelete(ok)
    \/ ConfirmDeleteAfterDelete
    \/ CancelDelete

SpecShared == Init /\ [][NextShared]_vars

(* C11: an update whose target id is not in the store when the UPDATE runs *)
(* fails with NotFound and is not reported as a success.  (The UPDATE      *)
(* neither adds nor removes a row, so the target was absent when it ran    *)
(* exactly if it is absent after the run.)                                 *)
C11_UpdateOfAbsentIdIsNotFound ==
    [][ (last'.op = "update" /\ ~(\E r \in entries' : r.id = eid))
            => last'.result = "NotFound"
      ]_vars

(* What holds instead: an update that passes the name check and on which   *)
(* sqlite does not raise reports success, whether or not its UPDATE        *)
(* matched a row.                                                          *)
C11_UpdateAlwaysReportsSuccess ==
    [][ (last'.op = "update" /\ last'.result \notin {"MissingField", "StoreError"})
            => last'.result = "Updated" /\ last'.arg \in {0, 1}
      ]_vars

(* C12: a delete whose target id is not in the store when the DELETE runs  *)
(* reports the absence; a successful deletion is reported only when the    *)
(* DELETE removed a row.                                                   *)
C12_DeleteOfAbsentIdIsReported ==
    [][ (last'.op = "confirmDelete" /\ last'.result = "Deleted") => last'.arg >= 1 ]_vars

(* What holds instead: a confirmed delete on which sqlite does not raise   *)
(* reports "Entry deleted" and clears the confirmation, whatever its       *)
(* rowcount.                                                               *)
C12_DeleteAlwaysReportsSuccess ==
    [][ (last'.op = "confirmDelete" /\ last'.result # "StoreError")
            => /\ last'.result = "Deleted"
               /\ ~confirm_delete' /\ delete_id' = None
      ]_vars

---------------------------------------------------------------------------
(* The queries over the table (SpecStore, SpecSummary).  SpecStore: rows    *)
(* saved on several dates and at several times of day, then updated and    *)
(* deleted.                                                                *)

NextStore ==
    \/ FirstRun
    \/ seq < MaxRows /\ SetCustomerName(<<"a">>)
    \/ \E d \in Dates, t \in Times, ok \in BOOLEAN : Save(d, t, ok)
    \/ \E i \in 1..MaxRows : SelectEntry(i)
    \/ \E ok \in BOOLEAN : Update(<<"b">>, "Others", "UPI", 300, 700, 200, 0, <<>>, ok)
    \/ RequestDelete
    \/ \E ok \in BOOLEAN : ConfirmDelete(ok)

SpecStore == Init /\ [][NextStore]_vars

(* The Summary tab over saved entries (SpecReport): entries saved on       *)
(* several dates, then the report date, the report type and the two dates  *)
(* of the range changed, each exporter passing or raising.                 *)
NextReport ==
    \/ FirstRun
    \/ seq < MaxRows /\ SetCustomerName(<<"a">>)
    \/ \E d \in Dates : Save(d, 1, TRUE)
    \/ \E d \in Dates, xlsOk \in BOOLEAN, pdfOk \in BOOLEAN :
          ChangeReportDate(d, xlsOk, pdfOk)
    \/ \E t \in ReportTypes, xlsOk \in BOOLEAN, pdfOk \in BOOLEAN :
          ChangeReportType(t, xlsOk, pdfOk)
    \/ \E d \in Dates, xlsOk \in BOOLEAN, pdfOk \in BOOLEAN :
          ChangeSummaryStart(d, xlsOk, pdfOk)
    \/ \E d \in Dates, xlsOk \in BOOLEAN, pdfOk \in BOOLEAN :
          ChangeSummaryEnd(d, xlsOk, pdfOk)

SpecReport == Init /\ [][NextReport]_vars

(* The charges and totals of the two collections (SpecTotals): deposit     *)
(* lines added, removed and edited up to MAX_AMOUNT and                    *)
(* MAX_CHARGE_PERCENTAGE, and the first K line edited.                     *)
NextTotals ==
    \/ FirstRun
    \/ \E i \in 1..MaxLines, a \in { 0, 500, MAX_AMOUNT } : EditBAmount(i, a)
    \/ \E i \in 1..MaxLines, p \in { 0, 2, MAX_CHARGE_PERCENTAGE } : EditBChargePct(i, p)
    \/ \E i \in 1..MaxLines : RemoveB(i)
    \/ AddB
    \/ \E a \in { 0, 300 } : EditKAmount(1, a)
    \/ \E p \in { 0, 1 } : EditKChargePct(1, p)

SpecTotals == Init /\ [][NextTotals]_vars

(* The sums of the Summary tab (SpecSummary): deposits of 300 and 500      *)
(* rupees at 1 and 2 percent, saved on several dates, then updated, and    *)
(* the report switched between "Daily" and "Date Range".                   *)
NextSummary ==
    \/ FirstRun
    \/ seq < MaxRows /\ SetCustomerName(<<"a">>)
    \/ seq < MaxRows /\ \E a \in { 300, 500 } : EditBAmount(1, a)
    \/ seq < MaxRows /\ \E p \in { 1, 2 } : EditBChargePct(1, p)
    \/ \E d \in Dates, ok \in BOOLEAN : Save(d, 1, ok)
    \/ Update(<<"b">>, "Others", "UPI", 300, 700, 200, 0, <<>>, TRUE)
    \/ \E t \in ReportTypes : ChangeReportType(t, TRUE, TRUE)

SpecSummary == Init /\ [][NextSummary]_vars

(* listByRange with its ids left out and its columns named as the export   *)
(* names them.                                                             *)
projected(l) == [ i \in 1..Len(l) |-> exportRow(l[i]) ]

(* C13: for every date range, the rows the export query returns are the    *)
(* rows of listByRange, projected, in the same order, in whichever order   *)
(* the export query returns them.                                          *)
C13_ExportAsListed ==
    \A s, e \in Dates :
        \A x \in exportRows(entries, date_filter("Date Range", s, s, e)) :
            x = projected(listByRange(entries, s, e))

(* What holds instead: the export holds the rows of listByRange, projected,*)
(* each as often as the list holds it; the order is the same when the rows *)
(* of one date have entry times that fall as their ids fall.               *)
C13_ExportSameRows ==
    \A s, e \in Dates :
        LET l == listByRange(entries, s, e) IN
        \A x \in exportRows(entries, date_filter("Date Range", s, s, e)) :
            /\ Len(x) = Len(l)
            /\ \A v \in { x[i] : i \in 1..Len(x) } :
                   Cardinality({ i \in 1..Len(x) : x[i] = v })
                       = Cardinality({ i \in 1..Len(l) : exportRow(l[i]) = v })
            /\ (\A i, j \in 1..Len(l) :
                    (i < j /\ l[i].entry_date = l[j].entry_date)
                        => l[i].entry_time > l[j].entry_time)
                   => x = projected(l)

---------------------------------------------------------------------------
(* What a save leaves behind (SpecDeposit).                                *)

(* C14: a save that writes adds exactly one row, whose b_amount,           *)
(* b_charges, k_amount and k_charges are the totals of the two collections *)
(* at save time, and leaves each collection as one line of amount 0 and    *)
(* charge_pct 0 with its counter set back to 1.                            *)
C14_SaveInsertsAndResets ==
    [][ (last'.op = "save" /\ entries' # entries)
            => /\ \E r \in entries' \ entries :
                     /\ entries' = entries \cup {r}
                     /\ r.b_amount = totalAmount(b_entries)
                     /\ r.b_charges = totalCharges(b_entries)
                     /\ r.k_amount = totalAmount(k_entries)
                     /\ r.k_charges = totalCharges(k_entries)
               /\ Len(b_entries') = 1
               /\ b_entries'[1].amount = 0 /\ b_entries'[1].charge_pct = 0
               /\ Len(k_entries') = 1
               /\ k_entries'[1].amount = 0 /\ k_entries'[1].charge_pct = 0
               /\ b_counter' = 1 /\ k_counter' = 1
      ]_vars

(* What holds instead: the row is added with the totals, and the form, the *)
(* two collections and their counters are after the save what they were    *)
(* before it.                                                              *)
C14_SaveInsertsAndKeepsForm ==
    [][ (last'.op = "save" /\ entries' # entries)
            => /\ \E r \in entries' \ entries :
                     /\ entries' = entries \cup {r}
                     /\ r.b_amount = totalAmount(b_entries)
                     /\ r.b_charges = totalCharges(b_entries)
                     /\ r.k_amount = totalAmount(k_entries)
                     /\ r.k_charges = totalCharges(k_entries)
               /\ last'.result = "SavedResetFailed"
               /\ UNCHANGED <<formVars, lineVars>>
      ]_vars

---------------------------------------------------------------------------
(* The frame of a removal (SpecLines).                                     *)

(* The collection es without the line at position i: the lines before it   *)
(* and the lines after it, each as it was, in their order.                 *)
Without(es, after, i) ==
    /\ Len(after) = Len(es) - 1
    /\ \A j \in 1..Len(after) : after[j] = IF j < i THEN es[j] ELSE es[j + 1]
    /\ \A j \in 1..Len(after) : after[j].id # es[i].id

---------------------------------------------------------------------------
(* The metrics of the Summary tab (SpecSummary).                           *)

(* The rows of a report: of the report date for "Daily", of the dates from *)
(* s to e, both included, for "Date Range".                                *)
inReport(type, d, s, e) ==
    { r \in entries : IF type = "Daily" THEN r.entry_date = d
                      ELSE s <= r.entry_date /\ r.entry_date <= e }

(* The sum of a column over the rows of m with ids 1..n, 0 over none.      *)
RECURSIVE total(_, _, _)
total(m, col, n) ==
    IF n = 0 THEN 0
    ELSE total(m, col, n - 1)
           + (IF \E r \in m : r.id = n THEN (CHOOSE r \in m : r.id = n)[col] ELSE 0)

(* C16: for every report, the summary shows the number of rows of the      *)
(* period, the sum of their b_amount, of their k_amount and of their       *)
(* grand_charges, and zero for each over a period with no row.             *)
C16_SummaryCountsAndSums ==
    \A type \in ReportTypes, d \in Dates, s \in Dates, e \in Dates :
        LET m   == inReport(type, d, s, e)
            shown == summarize(entries, date_filter(type, d, s, e))
        IN  /\ shown.count = Cardinality(m)
            /\ shown.total_b = total(m, "b_amount", seq)
            /\ shown.total_k = total(m, "k_amount", seq)
            /\ shown.total_charges = total(m, "grand_charges", seq)
            /\ m = {} => shown = [count |-> 0, total_b |-> 0, total_k |-> 0,
                                  total_charges |-> 0]

(* A date-range report over two rows: 500 at 2% (charge 10.00) and 300 at  *)
(* 1% (charge 3.00) give count 2, total B 800 and total charges 13.00.     *)
C16_Witness ==
    /\ last.op = "report" /\ "summary" \in ran
    /\ report_type = "Date Range"
    /\ \E r1, r2 \in entries :
          /\ r1.b_amount = 500 /\ r1.grand_charges = 1000
          /\ r2.b_amount = 300 /\ r2.grand_charges = 300
    /\ summarize(entries, date_filter(report_type, report_date,
                                      summary_start_date, summary_end_date))
          = [count |-> 2, total_b |-> 800, total_k |-> 0, total_charges |-> 1300]

---------------------------------------------------------------------------
(* Charges and totals of a collection (SpecTotals).                        *)

(* The sum of f over the first n lines of es, line by line.                *)
RECURSIVE overLines(_, _, _)
overLines(es, f(_), n) ==
    IF n = 0 THEN 0 ELSE overLines(es, f, n - 1) + f(es[n])

(* C17: the charge of a line is its amount times its percentage over 100   *)
(* (here in hundredths of a rupee: amount times percentage), and the       *)
(* totals of a collection are the sum of its lines' amounts and the sum    *)
(* of its lines' charges.                                                  *)
C17_TotalsAreSumsOfLines ==
    \A es \in { b_entries, k_entries } :
        LET amountOf(e) == e.amount
            perLine(e)  == e.amount * e.charge_pct
        IN  /\ \A i \in 1..Len(es) :
                  /\ 0 <= es[i].amount /\ es[i].amount <= MAX_AMOUNT
                  /\ 0 <= es[i].charge_pct /\ es[i].charge_pct <= MAX_CHARGE_PERCENTAGE
                  /\ chargeOf(es[i]) = es[i].amount * es[i].charge_pct
            /\ totalAmount(es) = overLines(es, amountOf, Len(es))
            /\ totalCharges(es) = overLines(es, perLine, Len(es))

(* Two deposit lines, one at both bounds and one of 500 at 2%: the total   *)
(* charge is the sum of the two charges, which is not the total amount at  *)
(* the average percentage.                                                 *)
C17_Witness ==
    /\ Len(b_entries) = 2
    /\ b_entries[1].amount = MAX_AMOUNT
    /\ b_entries[1].charge_pct = MAX_CHARGE_PERCENTAGE
    /\ b_entries[2].amount = 500 /\ b_entries[2].charge_pct = 2
    /\ totalCharges(b_entries) = MAX_AMOUNT * MAX_CHARGE_PERCENTAGE + 1000
    /\ 2 * totalCharges(b_entries)
          # (MAX_AMOUNT + 500) * (MAX_CHARGE_PERCENTAGE + 2)

---------------------------------------------------------------------------
(* The listing of the All Entries tab (SpecStore).                         *)

(* C18: for every start and end date the listing holds exactly the rows    *)
(* of the table dated from the start to the end date, both included, each  *)
(* once and as the table now holds it, the later date first and, within a  *)
(* date, the higher id first; the entry selected on the page is one of the *)
(* listing drawn from the table as it now is.                              *)
C18_ListingIsTheRangeInOrder ==
    /\ \A s \in Dates, e \in Dates :
          LET l == listByRange(entries, s, e)
          IN  /\ { l[i] : i \in 1..Len(l) }
                    = { r \in entries : s <= r.entry_date /\ r.entry_date <= e }
              /\ \A i, j \in 1..Len(l) : i # j => l[i].id # l[j].id
              /\ \A i, j \in 1..Len(l) :
                    i < j => \/ l[i].entry_date > l[j].entry_date
                             \/ /\ l[i].entry_date = l[j].entry_date
                                /\ l[i].id > l[j].id
    /\ eid # None =>
          \E r \in entries :
              /\ r.id = eid
              /\ start_date <= r.entry_date /\ r.entry_date <= end_date

(* Entry 1, dated 2, was updated after entry 2, dated 1, was saved: the    *)
(* listing of dates 1..2 has the updated entry 1 first, the listing of     *)
(* date 2 alone has only it.                                               *)
C18_Witness ==
    /\ last.op = "update" /\ last.result = "Updated"
    /\ \E r1, r2 \in entries :
          /\ r1.id = 1 /\ r1.entry_date = 2 /\ r1.customer_name = <<"b">>
          /\ r2.id = 2 /\ r2.entry_date = 1
          /\ listByRange(entries, 1, 2) = << r1, r2 >>
          /\ listByRange(entries, 2, 2) = << r1 >>

---------------------------------------------------------------------------
(* A store error on save (SpecSave).                                       *)

(* C19: a save on which the store raises adds no row and is not made       *)
(* again; the two collections, their counters and the form fields keep     *)
(* their values.                                                           *)
C19_StoreErrorAbortsTheSaveOnly ==
    [][ (last'.op = "save" /\ last'.result = "StoreError")
            => /\ entries' = entries
               /\ seq' = seq
               /\ UNCHANGED <<customer_name, customer_type, payment_mode, remarks>>
               /\ UNCHANGED <<b_entries, k_entries, b_counter, k_counter>>
      ]_vars

(* The store raised on the save of a named entry with two deposit lines,   *)
(* one of them at MAX_AMOUNT: the table is empty and the form is as typed. *)
C19_Witness ==
    /\ last.op = "save" /\ last.result = "StoreError"
    /\ entries = {} /\ seq = 0
    /\ customer_name = <<"a">>
    /\ Len(b_entries) = 2
    /\ b_entries[1].amount = MAX_AMOUNT

---------------------------------------------------------------------------
(* The two exports (SpecReport).                                           *)

(* A run that draws the Summary tab with the exporters passing (TRUE) or   *)
(* raising (FALSE).                                                        *)
ReportRun(xlsOk, pdfOk) ==
    \/ \E d \in Dates : ChangeReportDate(d, xlsOk, pdfOk)
    \/ \E t \in ReportTypes : ChangeReportType(t, xlsOk, pdfOk)
    \/ \E d \in Dates : ChangeSummaryStart(d, xlsOk, pdfOk)
    \/ \E d \in Dates : ChangeSummaryEnd(d, xlsOk, pdfOk)

(* C20: on a run that reaches the export section, the table is left as it  *)
(* was whatever the exporters do, the PDF is offered whenever the PDF      *)
(* exporter passes, the spreadsheet whenever the spreadsheet exporter      *)
(* passes, and a failing exporter gets its error message.                  *)
C20_ExportsFailApart ==
    [][ \A xlsOk \in BOOLEAN, pdfOk \in BOOLEAN :
          (ReportRun(xlsOk, pdfOk) /\ "summary" \in ran' /\ "no_data" \notin ran')
              => /\ entries' = entries /\ seq' = seq
                 /\ pdfOk <=> "pdf" \in ran'
                 /\ xlsOk <=> "excel" \in ran'
                 /\ ~pdfOk <=> "pdf_error" \in ran'
                 /\ ~xlsOk <=> "excel_error" \in ran'
      ]_vars

(* The spreadsheet export failed on a report over saved entries and the    *)
(* PDF is offered.                                                         *)
C20_Witness ==
    /\ last.op = "report"
    /\ ran = {"summary", "excel_error", "pdf"}
    /\ entries # {}

---------------------------------------------------------------------------
(* What may remove a row (SpecDelete).                                     *)

(* The ids of the rows of the table.                                       *)
idsOf(rows) == { r.id : r \in rows }

(* C21: a row leaves the table only on a confirm taken while a             *)
(* confirmation is pending for an entry, and the row that leaves is that   *)
(* entry and no other; a pending confirmation always names an entry and    *)
(* that entry is still in the table.                                       *)
C21_OnlyTheRequestedRowIsRemoved ==
    [][ /\ idsOf(entries) \ idsOf(entries') # {}
              => /\ last'.op = "confirmDelete"
                 /\ confirm_delete /\ delete_id # None
                 /\ idsOf(entries) \ idsOf(entries') = {delete_id}
                 /\ \A r \in entries : r.id # delete_id => r \in entries'
        /\ confirm_delete => delete_id \in idsOf(entries)
      ]_vars

(* Deletion was requested for entry 2, the range was then moved to start   *)
(* at date 2, and the confirm removed entry 2: entry 1 is still there.     *)
C21_Witness ==
    /\ last.op = "confirmDelete" /\ last.result = "Deleted"
    /\ seq = 2
    /\ idsOf(entries) = {1}
    /\ start_date = 2
    /\ ~confirm_delete /\ delete_id = None

---------------------------------------------------------------------------
(* Widget keys of the line items (SpecLines).                              *)

(* The lines of es have pairwise distinct ids, each below the counter.     *)
Keyed(es, ctr) ==
    /\ \A i, j \in 1..Len(es) : i # j => es[i].id # es[j].id
    /\ \A i \in 1..Len(es) : es[i].id # NoId /\ es[i].id < ctr

(* C22: once the script has run, the lines of a collection have pairwise   *)
(* distinct ids, each strictly below the collection's counter, so no two   *)
(* lines share a widget key; the collection and counter that reset_form    *)
(* assigns (one line of id 0, counter 1) have the property too, and keep   *)
(* it under an add.                                                        *)
C22_DistinctIdsBelowCounter ==
    /\ Rendered => Keyed(b_entries, b_counter) /\ Keyed(k_entries, k_counter)
    /\ Keyed(resetEntries, resetCounter)
    /\ Keyed(addLine(resetEntries, resetCounter), resetCounter + 1)

(* After a save, the deposit lines are the first and the third ever made,  *)
(* and the counter stands at 4.                                            *)
C22_Witness ==
    /\ Rendered
    /\ seq = 1
    /\ Len(b_entries) = 2
    /\ b_entries[1].id = 1 /\ b_entries[2].id = 3
    /\ b_counter = 4

---------------------------------------------------------------------------
(* The frame of an update (SpecStore).                                     *)

(* C23: an update that succeeds changes the row of the selected id and no  *)
(* other row; that row keeps its id, entry_date and entry_time, and the    *)
(* table keeps its number of rows.                                         *)
C23_UpdateChangesOneRow ==
    [][ (last'.op = "update" /\ last'.result = "Updated")
            => /\ \A r \in entries : r.id # eid => r \in entries'
               /\ \A r \in entries' : r.id # eid => r \in entries
               /\ \A r \in entries : r.id = eid =>
                     \E u \in entries' :
                        /\ u.id = r.id
                        /\ u.entry_date = r.entry_date
                        /\ u.entry_time = r.entry_time
               /\ Cardinality(entries') = Cardinality(entries)
               /\ { r.id : r \in entries' } = { r.id : r \in entries }
      ]_vars

(* Of two entries saved on date 1 at time 2 and on date 2 at time 1, the   *)
(* first has been updated: it has the new name and its date and time, the  *)
(* second is as it was saved.                                              *)
C23_Witness ==
    /\ last.op = "update" /\ last.result = "Updated" /\ last.arg = 1
    /\ Cardinality(entries) = 2
    /\ \E r \in entries :
          /\ r.id = 1 /\ r.entry_date = 1 /\ r.entry_time = 2
          /\ r.customer_name = <<"b">> /\ r.b_amount = 300
    /\ \E r \in entries :
          /\ r.id = 2 /\ r.entry_date = 2 /\ r.entry_time = 1
          /\ r.customer_name = <<"a">> /\ r.b_amount = 0

---------------------------------------------------------------------------
(* The payment-mode breakdown (SpecSummary).                               *)

(* The sum of a column of the breakdown over the payment modes ms.         *)
RECURSIVE acrossModes(_, _, _)
acrossModes(bd, col, ms) ==
    IF ms = {} THEN 0
    ELSE LET m == CHOOSE x \in ms : TRUE
         IN  (IF \E b \in bd : b.payment_mode = m
              THEN (CHOOSE b \in bd : b.payment_mode = m)[col] ELSE 0)
             + acrossModes(bd, col, ms \ {m})

(* C24: for every report, the breakdown agrees with the summary: its       *)
(* counts add up to the summary's count, its charges to the summary's      *)
(* total charges, it has one line for each payment mode that a row of the  *)
(* period has, and no line for any other mode.                             *)
C24_BreakdownAgreesWithSummary ==
    \A type \in ReportTypes, d \in Dates, s \in Dates, e \in Dates :
        LET cond  == date_filter(type, d, s, e)
            bd    == breakdownByPaymentMode(entries, cond)
            shown == summarize(entries, cond)
            m     == inReport(type, d, s, e)
        IN  /\ acrossModes(bd, "entries", Modes) = shown.count
            /\ acrossModes(bd, "charges", Modes) = shown.total_charges
            /\ \A b \in bd : /\ b.payment_mode \in Modes
                             /\ b.entries >= 1
                             /\ \E r \in m : r.payment_mode = b.payment_mode
            /\ \A r \in m : \E b \in bd : b.payment_mode = r.payment_mode
            /\ \A b1, b2 \in bd : b1.payment_mode = b2.payment_mode => b1 = b2

(* A date-range report over an entry paid in cash and an updated entry     *)
(* paid by UPI has a line for each mode; the daily report of the updated   *)
(* entry's date has the UPI line alone.                                    *)
C24_Witness ==
    /\ last.op = "report" /\ "summary" \in ran
    /\ report_type = "Date Range"
    /\ LET bd == breakdownByPaymentMode(entries,
                     date_filter(report_type, report_date, summary_start_date,
                                 summary_end_date))
       IN  /\ Cardinality(bd) = 2
           /\ [payment_mode |-> "Cash", entries |-> 1, charges |-> 1000] \in bd
           /\ [payment_mode |-> "UPI", entries |-> 1, charges |-> 700] \in bd
    /\ \E d \in Dates :
          breakdownByPaymentMode(entries, date_filter("Daily", d, d, d))
            = { [payment_mode |-> "UPI", entries |-> 1, charges |-> 700] }

=============================================================================
